---- MODULE Spec2Model ----
(***************************************************************************)
(* Consensus codec of gimballock/transaction-decoder.                      *)
(*                                                                         *)
(* Two decoders live in the repository: the trait-based one of             *)
(* src/transaction.rs (consensus_decode, built on Read::read_exact) and    *)
(* the free functions of src/lib.rs driven by run (built on Read::read,    *)
(* which short-reads).  Both are modelled, with the encoder and the        *)
(* identifier derivation of src/transaction.rs.                            *)
(*                                                                         *)
(* Unsigned integers are numerals: sequences of base-256 digits, most      *)
(* significant digit first, of the width of their type (u8 1 digit, u16 2, *)
(* u32 4, u64 8).  The wire is little-endian, so to_le_bytes and           *)
(* from_le_bytes reverse the digits.                                       *)
(***************************************************************************)
EXTENDS Integers, Sequences, FiniteSets, TLC

VARIABLES
  op,      \* codec bench: the codec operation that was applied ("none" before)
  val,     \* codec bench: the u64 handed to CompactSize's encoder
  wr,      \* codec bench: what the encoder wrote and the length it returned
  rd,      \* codec bench: what the decoder returned
  buf,     \* the input bytes (the reader's whole content)
  pos,     \* the cursor: bytes consumed so far
  pc,      \* the transaction decoder's position
  path,    \* "consensus" (transaction.rs) or "run" (lib.rs)
  tx,      \* the transaction under construction
  declared,\* the input and output counts as read from the wire, and where
           \* the cursor stood after each
  result,  \* "running", "ok", or how the call ended otherwise
  hashed,  \* the byte sequence handed to the double hash
  allocs,  \* the allocations sized by a value read from the input
  missing, \* bytes a short read left at zero so far: in the elements of the
           \* two lists, and in the other fields
  iters,   \* element-decode loop iterations executed
  orig     \* where the input came from (the transaction or the wire it was cut from)

vars == <<op, val, wr, rd, buf, pos, pc, path, tx, declared, result, hashed,
          allocs, missing, iters, orig>>

-----------------------------------------------------------------------------
(* Bytes and numerals *)

Byte == 0..255

\* `let x = v; F(x)`: v is computed once and F sees its value
Bind(v, F(_)) == CHOOSE y \in {F(x) : x \in {v}} : TRUE

Min(a, b) == IF a < b THEN a ELSE b

Zeros(n) == [i \in 1..n |-> 0]

Reverse(s) == [i \in 1..Len(s) |-> s[Len(s) + 1 - i]]

\* uN::to_le_bytes: the digits, least significant first
to_le_bytes(v) == Reverse(v)

\* a decoder that takes the first byte as the most significant one
from_be_bytes(b) == b

\* uN::from_le_bytes
from_le_bytes(b) == Reverse(b)

\* `x as u64` from a narrower unsigned type: zero extension
Widen(x, w) == Zeros(w - Len(x)) \o x

\* `val as u8`, `val as u16`, `val as u32`: the low digits
Truncate(x, w) == SubSeq(x, Len(x) - w + 1, Len(x))

\* the u64 of a small natural number (below 2^31)
U64(n) == [i \in 1..8 |-> IF i <= 4 THEN 0 ELSE (n \div (256 ^ (8 - i))) % 256]

\* the natural number of a numeral that is below 2^31
ToInt(v) ==
  LET w == Len(v)
      d(i) == IF i >= 1 THEN v[i] ELSE 0
  IN d(w) + 256 * d(w - 1) + 65536 * d(w - 2) + 16777216 * d(w - 3)

FitsInt(v) ==
  /\ \A i \in 1..(Len(v) - 4) : v[i] = 0
  /\ (Len(v) >= 4 => v[Len(v) - 3] < 128)

\* comparison of two numerals of the same width
NumLess(a, b) ==
  \E i \in 1..Len(a) : a[i] < b[i] /\ \A j \in 1..(i - 1) : a[j] = b[j]

NumLeq(a, b) == a = b \/ NumLess(a, b)

\* a match arm `lo..=hi`
InRange(v, lo, hi) == NumLeq(lo, v) /\ NumLeq(v, hi)

\* the range ends of CompactSize's encoder
X_FC == U64(252)
X_FD == U64(253)
X_FFFF == U64(65535)
X_10000 == U64(65536)
X_FFFFFFFF == <<0, 0, 0, 0, 255, 255, 255, 255>>

\* size_of::<TxIn>() and size_of::<TxOut>() on a 64-bit target; a script
\* buffer is a Vec<u8>
SizeOfTxIn == 64
SizeOfTxOut == 32
SizeOfU8 == 1

\* the largest element count whose size in bytes does not exceed isize::MAX:
\* 2^63 - 1 bytes, 2^57 - 1 TxIn, 2^58 - 1 TxOut
MaxCapacity(unit) ==
  IF unit = SizeOfTxIn THEN <<1, 255, 255, 255, 255, 255, 255, 255>>
  ELSE IF unit = SizeOfTxOut THEN <<3, 255, 255, 255, 255, 255, 255, 255>>
  ELSE <<127, 255, 255, 255, 255, 255, 255, 255>>

\* the smallest element count whose size in bytes reaches 2^47, the whole
\* user address space of a 64-bit target: no allocator can serve it
Unservable(unit) ==
  IF unit = SizeOfTxIn THEN <<0, 0, 2, 0, 0, 0, 0, 0>>
  ELSE IF unit = SizeOfTxOut THEN <<0, 0, 4, 0, 0, 0, 0, 0>>
  ELSE <<0, 0, 128, 0, 0, 0, 0, 0>>

\* Vec::with_capacity(n) and vec![0; n]: a panic ("capacity overflow") when
\* the size exceeds isize::MAX bytes, the process aborted (handle_alloc_error)
\* when the allocator cannot serve the size, the allocation otherwise
with_capacity(n, unit) ==
  IF NumLess(MaxCapacity(unit), n) THEN "panic"
  ELSE IF NumLeq(Unservable(unit), n) THEN "abort"
  ELSE "ok"

-----------------------------------------------------------------------------
(* hex::encode and hex::decode *)

HexLower == <<"0", "1", "2", "3", "4", "5", "6", "7", "8", "9",
              "a", "b", "c", "d", "e", "f">>
HexUpper == <<"0", "1", "2", "3", "4", "5", "6", "7", "8", "9",
              "A", "B", "C", "D", "E", "F">>

\* hex::encode: two lowercase digits per byte, high nibble first
hex_encode(b) ==
  [i \in 1..(2 * Len(b)) |->
     IF i % 2 = 1 THEN HexLower[(b[(i + 1) \div 2] \div 16) + 1]
                  ELSE HexLower[(b[i \div 2] % 16) + 1]]

IsHexDigit(c) == \E k \in 1..16 : HexLower[k] = c \/ HexUpper[k] = c

HexDigitVal(c) == (CHOOSE k \in 1..16 : HexLower[k] = c \/ HexUpper[k] = c) - 1

\* hex::decode: fails on odd length or a character that is no hex digit
hex_decode(s) ==
  IF Len(s) % 2 = 1 \/ \E i \in 1..Len(s) : ~IsHexDigit(s[i])
  THEN [ok |-> FALSE, val |-> <<>>]
  ELSE [ok |-> TRUE,
        val |-> [i \in 1..(Len(s) \div 2) |->
                   16 * HexDigitVal(s[2 * i - 1]) + HexDigitVal(s[2 * i])]]

-----------------------------------------------------------------------------
(* Encoders of src/transaction.rs.  An encoder's result is what it wrote   *)
(* to the writer (w), the length it returned (n) and whether it panicked.  *)
(* The writer is a Vec<u8>: Write::write appends the whole slice.          *)

Wrote(bytes, len) == [w |-> bytes, n |-> len, panic |-> FALSE]

\* two encoders in sequence: `len += x.consensus_encode(writer)?`
Then(a, b) ==
  Bind(a, LAMBDA x : Bind(b, LAMBDA y :
    [w |-> x.w \o y.w, n |-> x.n + y.n, panic |-> x.panic \/ y.panic]))

u8_consensus_encode(v) == Wrote(v, Len(v))

u16_consensus_encode(v) == Wrote(to_le_bytes(v), Len(to_le_bytes(v)))

u32_consensus_encode(v) == Wrote(to_le_bytes(v), Len(to_le_bytes(v)))

u64_consensus_encode(v) == Wrote(to_le_bytes(v), Len(to_le_bytes(v)))

Version_consensus_encode(v) == u32_consensus_encode(v)

Amount_consensus_encode(a) == u64_consensus_encode(a)

Txid_consensus_encode(t) == Wrote(t, Len(t))

\* an encoder whose single-byte arm reaches one value too far (0..=0xFD)
CompactSize_encode_wide_arm(v) ==
  IF InRange(v, U64(0), X_FD)
  THEN Wrote(u8_consensus_encode(Truncate(v, 1)).w, 1)
  ELSE IF InRange(v, X_FD, X_FFFF)
  THEN Wrote(<<253>> \o u16_consensus_encode(Truncate(v, 2)).w, 3)
  ELSE IF InRange(v, X_10000, X_FFFFFFFF)
  THEN Wrote(<<254>> \o u32_consensus_encode(Truncate(v, 4)).w, 5)
  ELSE Wrote(<<255>> \o u64_consensus_encode(v).w, 9)

CompactSize_consensus_encode(v) ==
  IF InRange(v, U64(0), X_FC)
  THEN Wrote(u8_consensus_encode(Truncate(v, 1)).w, 1)
  ELSE IF InRange(v, X_FD, X_FFFF)
  THEN Wrote(<<253>> \o u16_consensus_encode(Truncate(v, 2)).w, 3)
  ELSE IF InRange(v, X_10000, X_FFFFFFFF)
  THEN Wrote(<<254>> \o u32_consensus_encode(Truncate(v, 4)).w, 5)
  ELSE Wrote(<<255>> \o u64_consensus_encode(v).w, 9)

\* a script: hex::decode(self).expect(..), then the length prefix and the bytes
String_consensus_encode(s) ==
  Bind(hex_decode(s), LAMBDA b :
    IF ~b.ok THEN [w |-> <<>>, n |-> 0, panic |-> TRUE]
    ELSE Then(CompactSize_consensus_encode(U64(Len(b.val))), Wrote(b.val, Len(b.val))))

TxIn_consensus_encode(i) ==
  Then(Then(Then(Txid_consensus_encode(i.previous_txid),
                 u32_consensus_encode(i.previous_vout)),
            String_consensus_encode(i.script_sig)),
       u32_consensus_encode(i.sequence))

TxOut_consensus_encode(o) ==
  Then(Amount_consensus_encode(o.amount), String_consensus_encode(o.script_pubkey))

RECURSIVE EachTxIn(_)
EachTxIn(s) ==
  IF s = <<>> THEN Wrote(<<>>, 0)
  ELSE Then(TxIn_consensus_encode(Head(s)), EachTxIn(Tail(s)))

RECURSIVE EachTxOut(_)
EachTxOut(s) ==
  IF s = <<>> THEN Wrote(<<>>, 0)
  ELSE Then(TxOut_consensus_encode(Head(s)), EachTxOut(Tail(s)))

VecTxIn_consensus_encode(s) ==
  Then(CompactSize_consensus_encode(U64(Len(s))), EachTxIn(s))

VecTxOut_consensus_encode(s) ==
  Then(CompactSize_consensus_encode(U64(Len(s))), EachTxOut(s))

\* the bytes Transaction::txid collects in txid_data before hashing them
txid_data(t) ==
  Then(Then(Then(Version_consensus_encode(t.version),
                 VecTxIn_consensus_encode(t.inputs)),
            VecTxOut_consensus_encode(t.outputs)),
       u32_consensus_encode(t.lock_time))

-----------------------------------------------------------------------------
(* Decoders.  A decoder's result: ok, the error kind, the value, the       *)
(* cursor after the call, the allocations it made that were sized by a     *)
(* value read from the input, and how many bytes a short read left zero.   *)

Ok(v, p) == [ok |-> TRUE, err |-> "none", val |-> v, pos |-> p,
             alloc |-> <<>>, short |-> 0]

Err(e, p) == [ok |-> FALSE, err |-> e, val |-> <<>>, pos |-> p,
              alloc |-> <<>>, short |-> 0]

\* an allocation of req elements of unit bytes each, asked for with avail
\* bytes of input still unread
Alloc(site, req, unit, avail) ==
  [site |-> site, req |-> req, unit |-> unit, avail |-> avail]

\* <&[u8] as Read>::read_exact: all n bytes or UnexpectedEof (and the slice is
\* left empty)
read_exact(b, p, n) ==
  IF n > Len(b) - p THEN Err("UnexpectedEof", Len(b))
  ELSE Ok(SubSeq(b, p + 1, p + n), p + n)

\* <&[u8] as Read>::read: as many bytes as there are, at most n, and never an
\* error.  val is what was copied to the front of the caller's buffer, short
\* the number of bytes of that buffer the call did not touch.
read(b, p, n) ==
  LET k == Min(n, Len(b) - p) IN
  [Ok(SubSeq(b, p + 1, p + k), p + k) EXCEPT !.short = n - k]

\* the caller's buffer after read: it was `[0; N]`, and read wrote its front
Buffer(r) == r.val \o Zeros(r.short)

(* src/transaction.rs *)

u8_consensus_decode(b, p) == read_exact(b, p, 1)

u16_consensus_decode(b, p) ==
  Bind(read_exact(b, p, 2), LAMBDA r :
    IF r.ok THEN [r EXCEPT !.val = from_le_bytes(r.val)] ELSE r)

u32_consensus_decode(b, p) ==
  Bind(read_exact(b, p, 4), LAMBDA r :
    IF r.ok THEN [r EXCEPT !.val = from_le_bytes(r.val)] ELSE r)

u64_consensus_decode(b, p) ==
  Bind(read_exact(b, p, 8), LAMBDA r :
    IF r.ok THEN [r EXCEPT !.val = from_le_bytes(r.val)] ELSE r)

\* `x as u64` on a decoder's Ok value
AsU64(r) == Bind(r, LAMBDA x : IF x.ok THEN [x EXCEPT !.val = Widen(x.val, 8)] ELSE x)

Version_consensus_decode(b, p) == u32_consensus_decode(b, p)

Txid_consensus_decode(b, p) == read_exact(b, p, 32)

CompactSize_consensus_decode(b, p) ==
  Bind(u8_consensus_decode(b, p), LAMBDA n :
    IF ~n.ok THEN n
    ELSE IF n.val[1] \in 1..252 THEN AsU64(n)
    ELSE IF n.val[1] = 253 THEN AsU64(u16_consensus_decode(b, n.pos))
    ELSE IF n.val[1] = 254 THEN AsU64(u32_consensus_decode(b, n.pos))
    ELSE IF n.val[1] = 255 THEN u64_consensus_decode(b, n.pos)
    ELSE Err("InvalidInput", n.pos))

\* the second of two decoders in sequence keeps the first one's allocations
\* and short reads
After(a, r) ==
  Bind(a, LAMBDA x : Bind(r, LAMBDA y :
    [y EXCEPT !.alloc = x.alloc \o y.alloc, !.short = x.short + y.short]))

\* a script: the length, `vec![0; script_size as usize]`, read_exact, hex.
\* The zeroed buffer is allocated before a single byte of the script is read.
String_consensus_decode(b, p) ==
  Bind(CompactSize_consensus_decode(b, p), LAMBDA s :
    IF ~s.ok THEN s
    ELSE Bind(with_capacity(s.val, SizeOfU8), LAMBDA made :
      IF made # "ok" THEN Err(made, s.pos)
      ELSE Bind([s EXCEPT !.alloc =
                   <<Alloc("script", s.val, SizeOfU8, Len(b) - s.pos)>>], LAMBDA a :
        Bind(IF FitsInt(s.val) THEN read_exact(b, s.pos, ToInt(s.val))
             ELSE Err("UnexpectedEof", Len(b)), LAMBDA r :
          After(a, IF r.ok THEN [r EXCEPT !.val = hex_encode(r.val)] ELSE r)))))

TxIn_consensus_decode(b, p) ==
  Bind(Txid_consensus_decode(b, p), LAMBDA t :
    IF ~t.ok THEN t ELSE
    Bind(u32_consensus_decode(b, t.pos), LAMBDA v :
      IF ~v.ok THEN v ELSE
      Bind(String_consensus_decode(b, v.pos), LAMBDA s :
        IF ~s.ok THEN s ELSE
        Bind(After(s, u32_consensus_decode(b, s.pos)), LAMBDA q :
          IF ~q.ok THEN q ELSE
          [q EXCEPT !.val = [previous_txid |-> t.val, previous_vout |-> v.val,
                             script_sig |-> s.val, sequence |-> q.val]]))))

\* Amount::from_sat wraps the u64
TxOut_consensus_decode(b, p) ==
  Bind(u64_consensus_decode(b, p), LAMBDA a :
    IF ~a.ok THEN a ELSE
    Bind(String_consensus_decode(b, a.pos), LAMBDA s :
      IF ~s.ok THEN s ELSE
      [s EXCEPT !.val = [amount |-> a.val, script_pubkey |-> s.val]]))

\* the head of Vec<TxIn>::consensus_decode: the count, then with_capacity.
\* When with_capacity panics the count has been decoded: it stays in val.
VecTxIn_count(b, p) ==
  Bind(CompactSize_consensus_decode(b, p), LAMBDA n :
    IF ~n.ok THEN n
    ELSE Bind(with_capacity(n.val, SizeOfTxIn), LAMBDA made :
      IF made # "ok" THEN [Err(made, n.pos) EXCEPT !.val = n.val]
      ELSE [n EXCEPT !.alloc =
              <<Alloc("inputs", n.val, SizeOfTxIn, Len(b) - n.pos)>>]))

VecTxOut_count(b, p) ==
  Bind(CompactSize_consensus_decode(b, p), LAMBDA n :
    IF ~n.ok THEN n
    ELSE Bind(with_capacity(n.val, SizeOfTxOut), LAMBDA made :
      IF made # "ok" THEN [Err(made, n.pos) EXCEPT !.val = n.val]
      ELSE [n EXCEPT !.alloc =
              <<Alloc("outputs", n.val, SizeOfTxOut, Len(b) - n.pos)>>]))

(* src/lib.rs *)

read_u32(b, p) ==
  Bind(read(b, p, 4), LAMBDA r : [r EXCEPT !.val = from_le_bytes(Buffer(r))])

read_amount(b, p) ==
  Bind(read(b, p, 8), LAMBDA r : [r EXCEPT !.val = from_le_bytes(Buffer(r))])

\* Txid::from_bytes wraps the 32 bytes
read_txid(b, p) ==
  Bind(read(b, p, 32), LAMBDA r : [r EXCEPT !.val = Buffer(r)])

\* the continuation of a long form: n bytes read into a zeroed buffer
read_le(b, p, n) ==
  Bind(read(b, p, n), LAMBDA x : [x EXCEPT !.val = Widen(from_le_bytes(Buffer(x)), 8)])

read_compact_size(b, p) ==
  Bind(read(b, p, 1), LAMBDA c :
    Bind(Buffer(c), LAMBDA compact_size :
      Bind(compact_size[1], LAMBDA first_byte :
        IF first_byte \in 1..252 THEN [c EXCEPT !.val = Widen(compact_size, 8)]
        ELSE IF first_byte = 253 THEN After(c, read_le(b, c.pos, 2))
        ELSE IF first_byte = 254 THEN After(c, read_le(b, c.pos, 4))
        ELSE IF first_byte = 255 THEN After(c, read_le(b, c.pos, 8))
        ELSE After(c, Err("InvalidData", c.pos)))))

\* The script run returns is hex::encode of the zeroed buffer whose front
\* read wrote: the hex of the bytes read, then "00" for every byte read did
\* not reach.  It is kept as that pair (hex, pad), the string being hex
\* followed by pad times "00".  A script of 2^31 bytes or more that the
\* allocator does serve is beyond what is represented here; its buffer and
\* its hex string exhausting memory (the process aborts) is the outcome taken.
read_script(b, p) ==
  Bind(read_compact_size(b, p), LAMBDA s :
    IF ~s.ok THEN s
    ELSE Bind(with_capacity(s.val, SizeOfU8), LAMBDA made :
      IF made # "ok" THEN After(s, Err(made, s.pos))
      ELSE Bind([s EXCEPT !.alloc =
                   <<Alloc("script", s.val, SizeOfU8, Len(b) - s.pos)>>], LAMBDA a :
        IF ~FitsInt(s.val) THEN After(a, Err("abort", s.pos))
        ELSE Bind(read(b, s.pos, ToInt(s.val)), LAMBDA r :
          After(a, [r EXCEPT !.val = [hex |-> hex_encode(r.val), pad |-> r.short]])))))

\* one iteration of run's loop over the inputs
read_input(b, p) ==
  Bind(read_txid(b, p), LAMBDA t :
    Bind(After(t, read_u32(b, t.pos)), LAMBDA v :
      Bind(After(v, read_script(b, v.pos)), LAMBDA s :
        IF ~s.ok THEN s ELSE
        Bind(After(s, read_u32(b, s.pos)), LAMBDA q :
          [q EXCEPT !.val = [previous_txid |-> t.val, previous_vout |-> v.val,
                             script_sig |-> s.val, sequence |-> q.val]]))))

\* one iteration of run's loop over the outputs
read_output(b, p) ==
  Bind(read_amount(b, p), LAMBDA a :
    Bind(After(a, read_script(b, a.pos)), LAMBDA s :
      IF ~s.ok THEN s ELSE
      [s EXCEPT !.val = [amount |-> a.val, script_pubkey |-> s.val]]))

\* the double SHA-256 of Txid::new and hash_transaction, kept symbolic: the
\* identifier of a byte sequence is that byte sequence under two hashes
sha256(data) == [sha256 |-> data]
Txid_new(data) == sha256(sha256(data))
hash_transaction(raw_transaction) == sha256(sha256(raw_transaction))

-----------------------------------------------------------------------------
(* The inputs the codecs are applied to *)

\* the longest continuation that follows a prefix byte in a codec input
MaxTail == 9
\* the longest payload that follows a script's length field in a codec input
MaxPayload == 3

DigitSamples == {0, 1, 252, 253, 255}
PrefixSamples == {0, 1, 2, 252, 253, 254, 255}
TailSamples == {0, 1, 32, 78, 255}
PayloadSamples == {0, 171, 255}

\* a sequence of length n: first, then mid repeated, then last
Pattern(n, first, mid, last) ==
  [i \in 1..n |-> IF i = 1 THEN first ELSE IF i = n THEN last ELSE mid]

\* the u64 values handed to the encoder: every width, with sampled digits
CSValues ==
  {Widen(Pattern(w, hi, mid, lo), 8) :
     w \in 1..8, hi \in DigitSamples, mid \in DigitSamples, lo \in DigitSamples}

\* byte buffers handed to the integer and CompactSize decoders
CodecBuffers ==
  {<<>>} \cup
  {<<p>> \o Pattern(n, f, m, l) :
     p \in PrefixSamples, n \in 0..MaxTail,
     f \in TailSamples, m \in TailSamples, l \in TailSamples}

LengthFields ==
  {<<0>>, <<1>>, <<2>>, <<3>>, <<253, 2, 0>>, <<253, 0, 1>>, <<254, 1, 0, 0, 0>>,
   <<254, 0, 0, 0, 128>>, <<255, 2, 0, 0, 0, 0, 0, 0, 0>>,
   <<255, 0, 0, 0, 0, 0, 0, 0, 128>>,
   <<255, 255, 255, 255, 255, 255, 255, 255, 255>>}

\* byte buffers handed to the script decoders
ScriptBuffers ==
  {lf \o Pattern(n, f, m, l) :
     lf \in LengthFields, n \in 0..MaxPayload,
     f \in PayloadSamples, m \in PayloadSamples, l \in PayloadSamples}

NoTx == [version |-> <<>>, inputs |-> <<>>, outputs |-> <<>>, lock_time |-> <<>>,
         txid |-> <<>>]
NoCount == <<>>
NoneDeclared == [ins |-> NoCount, outs |-> NoCount, insAt |-> 0, outsAt |-> 0]
NoneMissing == [elements |-> 0, other |-> 0]

\* the part of the state the codec bench leaves alone
BenchIdle ==
  /\ pos = 0 /\ pc = "bench" /\ path = "none" /\ tx = NoTx
  /\ declared = NoneDeclared
  /\ result = "bench" /\ hashed = <<>> /\ allocs = <<>> /\ missing = NoneMissing
  /\ iters = 0

BenchInit ==
  /\ op = "none"
  /\ wr = Wrote(<<>>, 0)
  /\ rd = Ok(<<>>, 0)
  /\ \/ /\ orig = [kind |-> "value"]
        /\ val \in CSValues
        /\ buf = <<>>
     \/ /\ orig = [kind |-> "bytes"]
        /\ val = U64(0)
        /\ buf \in CodecBuffers
     \/ /\ orig = [kind |-> "script"]
        /\ val = U64(0)
        /\ buf \in ScriptBuffers
  /\ BenchIdle

BenchKeep == UNCHANGED <<val, buf, pos, pc, path, tx, declared, result, hashed,
                         allocs, missing, iters, orig>>

\* CompactSize(val).consensus_encode(&mut vec)
Encode ==
  /\ op = "none" /\ orig.kind = "value"
  /\ wr' = CompactSize_consensus_encode(val)
  /\ op' = "encode"
  /\ UNCHANGED rd
  /\ BenchKeep

\* CompactSize::consensus_decode on what the encoder wrote
DecodeWritten ==
  /\ op = "encode"
  /\ rd' = CompactSize_consensus_decode(wr.w, 0)
  /\ op' = "roundtrip"
  /\ UNCHANGED wr
  /\ BenchKeep

\* read_compact_size on what the encoder wrote
ReadWritten ==
  /\ op = "encode"
  /\ rd' = read_compact_size(wr.w, 0)
  /\ op' = "roundtrip_read"
  /\ UNCHANGED wr
  /\ BenchKeep

\* a decoder applied to the buffer, from its start
Apply(kind, name, r) ==
  /\ op = "none" /\ orig.kind = kind
  /\ rd' = r
  /\ op' = name
  /\ UNCHANGED wr
  /\ BenchKeep

DecodeCompactSize == Apply("bytes", "decode_cs", CompactSize_consensus_decode(buf, 0))
ReadCompactSize == Apply("bytes", "read_cs", read_compact_size(buf, 0))
DecodeU8 == Apply("bytes", "decode_u8", u8_consensus_decode(buf, 0))
DecodeU16 == Apply("bytes", "decode_u16", u16_consensus_decode(buf, 0))
DecodeU32 == Apply("bytes", "decode_u32", u32_consensus_decode(buf, 0))
DecodeU64 == Apply("bytes", "decode_u64", u64_consensus_decode(buf, 0))
ReadU32 == Apply("bytes", "read_u32", read_u32(buf, 0))
ReadAmount == Apply("bytes", "read_amount", read_amount(buf, 0))
DecodeString == Apply("script", "decode_string", String_consensus_decode(buf, 0))
ReadScript == Apply("script", "read_script", read_script(buf, 0))

BenchNext ==
  \/ Encode
  \/ DecodeWritten
  \/ ReadWritten
  \/ DecodeCompactSize
  \/ ReadCompactSize
  \/ DecodeU8
  \/ DecodeU16
  \/ DecodeU32
  \/ DecodeU64
  \/ ReadU32
  \/ ReadAmount
  \/ DecodeString
  \/ ReadScript

SpecCodec == BenchInit /\ [][BenchNext]_vars

-----------------------------------------------------------------------------
(* The inputs the transaction decoders are applied to *)

\* the most inputs and outputs of a generated transaction
MaxInputs == 2
MaxOutputs == 2
\* the most bytes cut from the end of a generated wire, and appended to it
MaxCut == 5
MaxExtra == 2

RECURSIVE Concat(_)
Concat(ss) == IF ss = <<>> THEN <<>> ELSE Head(ss) \o Concat(Tail(ss))

WireVersion == <<1, 0, 0, 0>>
WireLockTime == <<64, 226, 1, 0>>
WireSequence == <<254, 255, 255, 255>>
WireAmount == <<235, 177, 15, 0, 0, 0, 0, 0>>
WireTxid(i) == [j \in 1..32 |-> 16 * i + (j % 16)]

CountStyles == {"min", "fd", "over", "many", "cap", "max"}
ScriptStyles == {"one", "empty", "two", "fd", "over", "big", "max"}

\* the count field written before k elements
CountField(k, style) ==
  CASE style = "min" -> <<k>>
    [] style = "fd" -> <<253, k, 0>>
    [] style = "over" -> <<k + 1>>
    [] style = "many" -> <<253, 32, 78>>
    [] style = "cap" -> <<255, 0, 0, 0, 0, 0, 0, 0, 2>>
    [] style = "max" -> <<255, 255, 255, 255, 255, 255, 255, 255, 255>>

\* a script with its length field
ScriptField(style) ==
  CASE style = "one" -> <<1, 171>>
    [] style = "empty" -> <<0>>
    [] style = "two" -> <<2, 0, 255>>
    [] style = "fd" -> <<253, 1, 0, 171>>
    [] style = "over" -> <<3, 171>>
    [] style = "big" -> <<255, 0, 0, 0, 0, 0, 128, 0, 0>>
    [] style = "max" -> <<255, 255, 255, 255, 255, 255, 255, 255, 255>>

\* the shapes of a wire: at most one field departs from the plain form
Shapes ==
  {s \in [ci : CountStyles, si : ScriptStyles, co : CountStyles, so : ScriptStyles] :
     Cardinality({f \in {"ci", "co"} : s[f] # "min"}
                 \cup {f \in {"si", "so"} : s[f] # "one"}) <= 1}

\* a shape in which every count is the number of elements that follow and every
\* script length the number of bytes that follow
WellFormed(s) ==
  /\ s.ci \in {"min", "fd"} /\ s.co \in {"min", "fd"}
  /\ s.si \in {"one", "empty", "two", "fd"} /\ s.so \in {"one", "empty", "two", "fd"}

Wire(kIn, kOut, s) ==
  WireVersion
    \o CountField(kIn, s.ci)
    \o Concat([i \in 1..kIn |->
                 WireTxid(i) \o <<i - 1, 0, 0, 0>> \o ScriptField(s.si) \o WireSequence])
    \o CountField(kOut, s.co)
    \o Concat([i \in 1..kOut |-> WireAmount \o ScriptField(s.so)])
    \o WireLockTime

\* the wire with its last bytes cut (m < 0) or with bytes appended (m > 0)
Mangle(w, m) ==
  IF m < 0 THEN SubSeq(w, 1, Len(w) + m) ELSE w \o [i \in 1..m |-> 238]

SeqsUpTo(n, S) == UNION {[1..k -> S] : k \in 0..n}

ScriptSamples == {<<>>, <<"a", "b">>, <<"0", "0", "f", "f">>}

TxInSamples ==
  {[previous_txid |-> WireTxid(1), previous_vout |-> <<0, 0, 0, 1>>,
    script_sig |-> s, sequence |-> <<255, 255, 255, 254>>] : s \in ScriptSamples}

TxOutSamples ==
  {[amount |-> <<0, 0, 0, 0, 0, 15, 177, 235>>, script_pubkey |-> s] :
     s \in ScriptSamples}

Transactions ==
  [version : {<<0, 0, 0, 1>>, <<255, 0, 0, 2>>},
   inputs : SeqsUpTo(MaxInputs, TxInSamples),
   outputs : SeqsUpTo(MaxOutputs, TxOutSamples),
   lock_time : {<<0, 0, 0, 0>>, <<0, 1, 226, 64>>},
   txid : {<<>>}]

-----------------------------------------------------------------------------
(* The transaction decoders, one step per field of the wire *)

BenchOff ==
  /\ op = "off" /\ val = U64(0) /\ wr = Wrote(<<>>, 0) /\ rd = Ok(<<>>, 0)

Init ==
  /\ BenchOff
  /\ pos = 0 /\ tx = NoTx /\ declared = NoneDeclared
  /\ result = "running" /\ hashed = <<>> /\ allocs = <<>> /\ missing = NoneMissing
  /\ iters = 0
  /\ path \in {"consensus", "run"}
  /\ \/ /\ \E t \in Transactions : orig = [kind |-> "tx", t |-> t]
        /\ buf = <<>>
        /\ pc = "encode"
     \/ /\ \E kIn \in 0..MaxInputs, kOut \in 0..MaxOutputs, s \in Shapes,
             m \in (-MaxCut)..MaxExtra :
             /\ orig = [kind |-> "wire", base |-> Wire(kIn, kOut, s), shape |-> s,
                        ins |-> kIn, outs |-> kOut, mangle |-> m]
             /\ buf = Mangle(Wire(kIn, kOut, s), m)
        /\ pc = "version"

Keep == UNCHANGED <<op, val, wr, rd, path, orig>>

\* what every decoding step does with the result r of the decoder it called
Advance(r, part) ==
  /\ pos' = r.pos
  /\ allocs' = allocs \o r.alloc
  /\ missing' = [missing EXCEPT ![part] = @ + r.short]

\* `?` on an error: the call returns it
Return(r) ==
  /\ result' = r.err
  /\ pc' = "done"

\* the four encoders of Transaction::txid applied to the transaction handed in
EncodeTx ==
  /\ pc = "encode"
  /\ buf' = txid_data(orig.t).w
  /\ pc' = "version"
  /\ UNCHANGED <<pos, tx, declared, result, hashed, allocs, missing, iters>>
  /\ Keep

DecodeVersion ==
  /\ pc = "version"
  /\ \E r \in {IF path = "consensus" THEN Version_consensus_decode(buf, pos)
              ELSE read_u32(buf, pos)} :
     /\ Advance(r, "other")
     /\ IF r.ok
        THEN /\ tx' = [tx EXCEPT !.version = r.val]
             /\ pc' = "in_count"
             /\ UNCHANGED result
        ELSE Return(r) /\ UNCHANGED tx
  /\ UNCHANGED <<buf, declared, hashed, iters>>
  /\ Keep

DecodeInputCount ==
  /\ pc = "in_count"
  /\ \E r \in {IF path = "consensus" THEN VecTxIn_count(buf, pos)
              ELSE read_compact_size(buf, pos)} :
     /\ Advance(r, "other")
     /\ declared' = IF r.val = <<>> THEN declared
                    ELSE [declared EXCEPT !.ins = r.val, !.insAt = r.pos]
     /\ IF r.ok
        THEN /\ pc' = IF r.val = U64(0) THEN "out_count" ELSE "inputs"
             /\ UNCHANGED result
        ELSE Return(r)
  /\ UNCHANGED <<buf, tx, hashed, iters>>
  /\ Keep

\* one iteration of `for _ in 0..len`
DecodeInput ==
  /\ pc = "inputs"
  /\ \E r \in {IF path = "consensus" THEN TxIn_consensus_decode(buf, pos)
              ELSE read_input(buf, pos)} :
     /\ Advance(r, "elements")
     /\ iters' = iters + 1
     /\ IF r.ok
        THEN /\ tx' = [tx EXCEPT !.inputs = Append(@, r.val)]
             /\ pc' = IF U64(Len(tx.inputs) + 1) = declared.ins
                      THEN "out_count" ELSE "inputs"
             /\ UNCHANGED result
        ELSE Return(r) /\ UNCHANGED tx
  /\ UNCHANGED <<buf, declared, hashed>>
  /\ Keep

DecodeOutputCount ==
  /\ pc = "out_count"
  /\ \E r \in {IF path = "consensus" THEN VecTxOut_count(buf, pos)
              ELSE read_compact_size(buf, pos)} :
     /\ Advance(r, "other")
     /\ declared' = IF r.val = <<>> THEN declared
                    ELSE [declared EXCEPT !.outs = r.val, !.outsAt = r.pos]
     /\ IF r.ok
        THEN /\ pc' = IF r.val = U64(0) THEN "lock_time" ELSE "outputs"
             /\ UNCHANGED result
        ELSE Return(r)
  /\ UNCHANGED <<buf, tx, hashed, iters>>
  /\ Keep

DecodeOutput ==
  /\ pc = "outputs"
  /\ \E r \in {IF path = "consensus" THEN TxOut_consensus_decode(buf, pos)
              ELSE read_output(buf, pos)} :
     /\ Advance(r, "elements")
     /\ iters' = iters + 1
     /\ IF r.ok
        THEN /\ tx' = [tx EXCEPT !.outputs = Append(@, r.val)]
             /\ pc' = IF U64(Len(tx.outputs) + 1) = declared.outs
                      THEN "lock_time" ELSE "outputs"
             /\ UNCHANGED result
        ELSE Return(r) /\ UNCHANGED tx
  /\ UNCHANGED <<buf, declared, hashed>>
  /\ Keep

DecodeLockTime ==
  /\ pc = "lock_time"
  /\ \E r \in {IF path = "consensus" THEN u32_consensus_decode(buf, pos)
              ELSE read_u32(buf, pos)} :
     /\ Advance(r, "other")
     /\ IF r.ok
        THEN /\ tx' = [tx EXCEPT !.lock_time = r.val]
             /\ pc' = "txid"
             /\ UNCHANGED result
        ELSE Return(r) /\ UNCHANGED tx
  /\ UNCHANGED <<buf, declared, hashed, iters>>
  /\ Keep

\* the identifier: Transaction::txid hashes the re-encoded fields, run hashes
\* the input buffer
ComputeTxid ==
  /\ pc = "txid"
  /\ IF path = "consensus"
     THEN \E d \in {txid_data(tx)} :
          IF d.panic
          THEN /\ result' = "panic"
               /\ UNCHANGED <<hashed, tx>>
          ELSE /\ hashed' = d.w
               /\ tx' = [tx EXCEPT !.txid = Txid_new(d.w)]
               /\ result' = "ok"
     ELSE /\ hashed' = buf
          /\ tx' = [tx EXCEPT !.txid = hash_transaction(buf)]
          /\ result' = "ok"
  /\ pc' = "done"
  /\ UNCHANGED <<buf, pos, declared, allocs, missing, iters>>
  /\ Keep

Next ==
  \/ EncodeTx
  \/ DecodeVersion
  \/ DecodeInputCount
  \/ DecodeInput
  \/ DecodeOutputCount
  \/ DecodeOutput
  \/ DecodeLockTime
  \/ ComputeTxid

Spec == Init /\ [][Next]_vars

-----------------------------------------------------------------------------
(* CompactSize: the properties checked under SpecCodec *)

\* the digit of weight 256^j of a u64
Digit(v, j) == v[8 - j]

\* how many low digits hold the value: all digits above them are zero
Significant(v) ==
  IF \A i \in 1..8 : v[i] = 0 THEN 0
  ELSE 9 - (CHOOSE i \in 1..8 : v[i] # 0 /\ \A j \in 1..(i - 1) : v[j] = 0)

\* the number of bytes that follow a given prefix byte
Continuation(p) == IF p = 253 THEN 2 ELSE IF p = 254 THEN 4 ELSE IF p = 255 THEN 8 ELSE 0

DecodedCompactSize == op \in {"decode_cs", "read_cs"}

\* C1: a buffer whose first byte is p in 0..=252 decodes to the value p with
\* exactly 1 byte consumed, for both CompactSize decoders; 0x00 decodes to 0.
C1_SingleByteForm ==
  (DecodedCompactSize /\ Len(buf) >= 1 /\ buf[1] \in 0..252) =>
    /\ rd.ok
    /\ Significant(rd.val) <= 1 /\ Digit(rd.val, 0) = buf[1]
    /\ rd.pos = 1

\* C2: after a prefix 253, 254 or 255 that is followed by at least 2, 4 or 8
\* bytes, both decoders return those bytes as a little-endian unsigned integer
\* and have consumed 3, 5 or 9 bytes, whatever the value (fd 20 4e is 20000,
\* fd 00 01 is 256).
C2_LongForms ==
  (DecodedCompactSize /\ Len(buf) >= 1 /\ buf[1] \in {253, 254, 255}
     /\ Len(buf) >= 1 + Continuation(buf[1])) =>
    LET k == Continuation(buf[1]) IN
    /\ rd.ok
    /\ Len(rd.val) = 8
    /\ \A j \in 0..7 : Digit(rd.val, j) = (IF j < k THEN buf[2 + j] ELSE 0)
    /\ rd.pos = 1 + k
    /\ rd.short = 0
    /\ (SubSeq(buf, 1, 3) = <<253, 32, 78>> => ToInt(rd.val) = 20000)
    /\ (SubSeq(buf, 1, 3) = <<253, 0, 1>> => ToInt(rd.val) = 256)

C2_Witness ==
  /\ op = "read_cs" /\ buf = <<253, 32, 78>>
  /\ rd.ok /\ rd.val = <<0, 0, 0, 0, 0, 0, 78, 32>> /\ rd.pos = 3

\* C3: the encoder writes the shortest form: 1 byte up to 0xFC, 0xFD and 2
\* bytes up to 0xFFFF, 0xFE and 4 bytes up to 0xFFFFFFFF, 0xFF and 8 bytes
\* above; the bytes after the prefix are the value in little-endian and the
\* length returned is the number of bytes written.
C3_MinimalForm ==
  (op = "encode") =>
    LET s == Significant(val)
        k == IF s <= 1 /\ Digit(val, 0) <= 252 THEN 0
             ELSE IF s <= 2 THEN 2
             ELSE IF s <= 4 THEN 4
             ELSE 8
    IN
    /\ ~wr.panic
    /\ wr.n = Len(wr.w)
    /\ IF k = 0
       THEN wr.w = <<Digit(val, 0)>>
       ELSE /\ Len(wr.w) = 1 + k
            /\ wr.w[1] = (IF k = 2 THEN 253 ELSE IF k = 4 THEN 254 ELSE 255)
            /\ \A j \in 0..(k - 1) : wr.w[2 + j] = Digit(val, j)

C3_Witness ==
  /\ op = "encode" /\ val = <<0, 0, 0, 0, 0, 1, 0, 0>>
  /\ wr.w = <<254, 0, 0, 1, 0>> /\ wr.n = 5

\* C4: decoding what the encoder wrote for v succeeds, yields v and consumes
\* exactly the bytes written, for every v (0 included) and both decoders.
C4_RoundTrip ==
  (op \in {"roundtrip", "roundtrip_read"}) =>
    /\ rd.ok
    /\ rd.val = val
    /\ rd.pos = Len(wr.w)

-----------------------------------------------------------------------------
(* The transaction codec: the properties checked under Spec *)

Returned == pc = "done"

\* an error value handed back to the caller (as opposed to a panic or an abort)
ErrorKinds == {"UnexpectedEof", "InvalidInput", "InvalidData"}

\* the four wire fields of a transaction
Fields(t) == <<t.version, t.inputs, t.outputs, t.lock_time>>

\* C5: decoding the consensus encoding of a valid transaction T (any version,
\* lists and scripts, empty ones included, any lock time) succeeds, yields the
\* fields of T with inputs and outputs in order, and the same txid as T.
C5_TransactionRoundTrip ==
  (orig.kind = "tx" /\ path = "consensus" /\ Returned) =>
    /\ result = "ok"
    /\ Fields(tx) = Fields(orig.t)
    /\ tx.txid = Txid_new(txid_data(orig.t).w)

\* a wire in which every count and every script length is the number of
\* elements and bytes that follow, and none of them is zero
PlainWire ==
  /\ orig.kind = "wire"
  /\ WellFormed(orig.shape)
  /\ orig.ins >= 1 /\ orig.outs >= 1
  /\ orig.shape.si # "empty" /\ orig.shape.so # "empty"

\* C6: decoding a valid encoding with its last byte removed fails with a
\* truncated-input error, on either decoder; it never succeeds with the missing
\* byte taken as zero.
C6_TruncationFails ==
  (PlainWire /\ orig.mangle = -1 /\ Returned) => result = "UnexpectedEof"

\* C7: when decode succeeds, the bytes handed to the double hash are exactly
\* the bytes consumed for version, inputs, outputs and lock time: nothing that
\* follows the lock time, and nothing but what was read.
C7_HashedIsConsumed ==
  (Returned /\ result = "ok") => hashed = SubSeq(buf, 1, pos)

\* a count that declares more elements than the bytes after it can hold, an
\* input taking at least 41 bytes and an output at least 9
Overdeclared ==
  \/ /\ declared.ins # NoCount
     /\ NumLess(U64((Len(buf) - declared.insAt) \div 41), declared.ins)
  \/ /\ declared.outs # NoCount
     /\ NumLess(U64((Len(buf) - declared.outsAt) \div 9), declared.outs)

\* C8: a declared count that the remaining bytes cannot hold ends in an error
\* value, and a transaction that is returned has as many inputs and outputs as
\* were declared, every one of them built from bytes of the buffer.
C8_CountsHeldByBuffer ==
  /\ (Returned /\ Overdeclared) => result \in ErrorKinds
  /\ (Returned /\ result = "ok") =>
       /\ U64(Len(tx.inputs)) = declared.ins
       /\ U64(Len(tx.outputs)) = declared.outs
       /\ missing.elements = 0

\* C9: whatever the input bytes, decoding and computing the identifier returns
\* normally, with a transaction or an error value: no panic, no abort.
C9_NoPanic ==
  Returned => result \in ErrorKinds \cup {"ok"}

\* C10: every allocation sized by a value read from the input asks for no more
\* elements (or script bytes) than there are bytes left in the buffer.
C10_AllocationBounded ==
  \A i \in 1..Len(allocs) : NumLeq(allocs[i].req, U64(allocs[i].avail))

\* the trait decoder returned a transaction and read the buffer to its end
DecodedWhole ==
  path = "consensus" /\ Returned /\ result = "ok" /\ pos = Len(buf)

\* C11: for every buffer that decodes successfully with all of it consumed,
\* the bytes Transaction::txid re-encodes from the decoded fields are the buffer
\* byte for byte, so the txid equals hash_transaction of the raw buffer.
C11_ReserializationIdentity ==
  DecodedWhole =>
    /\ hashed = buf
    /\ tx.txid = hash_transaction(buf)

-----------------------------------------------------------------------------
(* Termination: the call is sequential code that nothing blocks, so a step
   that can be taken is taken *)

LiveSpec == Init /\ [][Next]_vars /\ WF_vars(Next)

\* no step moves the cursor back
CursorForward == [][pos' >= pos]_vars

\* the bytes consumed are bytes of the buffer
WithinBuffer == pos <= Len(buf)

\* the element loops have run no more often than the buffer has bytes
IterationsBounded == iters <= Len(buf)

\* C12: for every buffer and every declared count, decode terminates, with
\* success or an error value; the cursor only moves forward, never beyond the
\* end of the buffer, and the element loops run at most as many iterations as
\* the buffer has bytes, whatever count was declared.
C12_BoundedDecode ==
  /\ <>Returned
  /\ [](Returned => result \in ErrorKinds \cup {"ok"})
  /\ CursorForward
  /\ [](WithinBuffer /\ IterationsBounded)

====
